---- MODULE Spec2Model ----
(***************************************************************************)
(* vsock-oneway-latency-benchmark (src/vsock-oneway-latency-benchmark.c,   *)
(* the -m <vsock|unix|inet> program of lines 312-873): one process, in the *)
(* server (responder) or the client (initiator) role, exchanging ITERATIONS*)
(* timestamp/ACK pairs over one socket and then printing statistics.       *)
(*                                                                         *)
(* The kernel and the peer are the environment: every read(), write(),     *)
(* socket call and rdtsc reading is a nondeterministic choice among the     *)
(* results the call can return.                                            *)
(*                                                                         *)
(* Widths are scaled: tsc_t, size_t and long long have TscBits bits and    *)
(* int has IntBits bits (64 and 32 in the program); all arithmetic wraps   *)
(* at those widths exactly as the C arithmetic wraps at 64 and 32.         *)
(* long double values are exact rationals [num, den] in lowest terms and   *)
(* the "stddev" line carries the radicand of the sqrt() that is printed.   *)
(***************************************************************************)
EXTENDS Integers, Sequences, FiniteSets

\* ------------------------------------------------------------ widths
ITERATIONS == 4
TscBits == 11
IntBits == 6

TscMod == 2^TscBits
ULONG_MAX == TscMod - 1
LLONG_MAX == 2^(TscBits - 1) - 1
LLONG_MIN == -(2^(TscBits - 1))
IntMod == 2^IntBits
INT_MAX == 2^(IntBits - 1) - 1

EXIT_SUCCESS == 0
EXIT_FAILURE == 1
SERVER_RESPONSE_LENGTH == 1
\* sizeof(tsc_t): the size of the request the client writes and the server reads
SizeofTsc == 8

\* unsigned wrap-around of a tsc_t / size_t expression
WrapU(x) == x % TscMod
\* conversion of an integer to int: the low IntBits bits, two's complement
ToInt(x) == LET m == x % IntMod IN IF m > INT_MAX THEN m - IntMod ELSE m
\* conversion of a read()/write() result (ssize_t) to size_t
ToSizeT(r) == WrapU(r)

\* ------------------------------------------------------------ inputs
\* what the environment may hand to the process
Modes == {"vsock", "unix", "inet", "bogus"}
Flags == {"-s", "-c", "-x"}
ArgStrings ==
    { <<"0">>, <<"2">>, <<"-", "2", "0", "0">>, <<"-", "6", "0", "0">>,
      <<"-", "1">>, <<"x">>, <<"7", "x">>, <<>>,
      <<"1", ".", "0", ".", "0", ".", "2">> }
\* timestamps a peer may put on the wire
WireTsc == {1000, 2000}
\* the cycle counter when the process starts, and how far it may advance
\* between two readings
TscStart == 1499
TscSteps == {1, 2}

VARIABLES
    mode,               \* argv[2]
    flag,               \* argv[3]
    arg,                \* argv[4], a sequence of characters
    pc,                 \* where the process is
    i,                  \* the loop counter of run_server / run_client
    ticks,              \* tsc_t ticks[ITERATIONS]
    filled,             \* the slots of ticks an iteration has assigned
    recorded,           \* the value each iteration assigned to its slot
    fd,                 \* client_sock_fd / server_sock_fd
    client_tsc_offset,  \* run_server's offset parameter
    client_send_tsc,    \* the timestamp run_server read from the socket
    begin_ts,           \* run_client's begin_rdtsc() reading
    end_ts,             \* the last end_rdtsc() reading
    tsc,                \* the hardware cycle counter
    op,                 \* the last read()/write() the process made
    rc,                 \* what that call returned (ssize_t)
    last_read,          \* what the last read() returned
    last_write,         \* what the last write() returned
    exit_code,          \* the process exit status, once pc = "exited"
    stdout,             \* the lines written to stdout
    sys,                \* the socket-layer calls made so far, in order
    cli,                \* two connected processes: the client's locals
    srv,                \*   the server's locals
    req,                \*   the requests written and not yet read
    ack,                \*   the responses written and not yet read
    now,                \*   the cycle counter both processes read
    death               \*   which of the two was killed, and how far its peer was

\* the variables of a process run on its own, and those of a connected pair
soloVars == <<mode, flag, arg, pc, i, ticks, filled, recorded, fd, client_tsc_offset,
              client_send_tsc, begin_ts, end_ts, tsc, op, rc, last_read,
              last_write, exit_code, stdout, sys>>
pairVars == <<cli, srv, req, ack, now, death>>

vars == <<soloVars, pairVars>>

Slots == 0..(ITERATIONS - 1)

\* no connected pair is modelled: the pair variables are at rest
PairIdle ==
    /\ cli = [pc |-> "none"]
    /\ srv = [pc |-> "none"]
    /\ req = <<>>
    /\ ack = <<>>
    /\ now = 0
    /\ death = [who |-> "none"]

\* ------------------------------------------------------------ strtoll
IsDigit(c) == c \in {"0", "1", "2", "3", "4", "5", "6", "7", "8", "9"}
DigitVal(c) ==
    CASE c = "0" -> 0 [] c = "1" -> 1 [] c = "2" -> 2 [] c = "3" -> 3
      [] c = "4" -> 4 [] c = "5" -> 5 [] c = "6" -> 6 [] c = "7" -> 7
      [] c = "8" -> 8 [] c = "9" -> 9

\* the digits of s from position k on, accumulated into acc (a magnitude,
\* saturating one past LLONG_MAX); the result is <<magnitude, next position>>
RECURSIVE ScanDigits(_, _, _)
ScanDigits(s, k, acc) ==
    IF k <= Len(s) /\ IsDigit(s[k])
    THEN LET n == acc * 10 + DigitVal(s[k])
         IN ScanDigits(s, k + 1, IF n > LLONG_MAX + 1 THEN LLONG_MAX + 1 ELSE n)
    ELSE <<acc, k>>

RECURSIVE SkipSpace(_, _)
SkipSpace(s, k) == IF k <= Len(s) /\ s[k] = " " THEN SkipSpace(s, k + 1) ELSE k

\* strtoll(s, &end, 10): value is the result, end the number of characters
\* before *end (0 when no digits were converted: end = s)
strtoll(s) ==
    LET a   == SkipSpace(s, 1)
        neg == a <= Len(s) /\ s[a] = "-"
        b   == IF a <= Len(s) /\ s[a] \in {"-", "+"} THEN a + 1 ELSE a
        d   == ScanDigits(s, b, 0)
        mag == d[1]
    IN IF d[2] = b
       THEN [value |-> 0, end |-> 0]
       ELSE [value |-> IF neg THEN (IF mag > LLONG_MAX THEN LLONG_MIN ELSE -mag)
                       ELSE (IF mag > LLONG_MAX THEN LLONG_MAX ELSE mag),
             end |-> d[2] - 1]

parse_client_tsc_offset(s) ==
    LET r == strtoll(s)
    IN IF r.end # 0 /\ r.end = Len(s) THEN r.value ELSE -1

parse_cid(s) ==
    LET r == strtoll(s)
    IN IF r.end # 0 /\ r.end = Len(s) THEN ToInt(r.value) ELSE -1

\* ------------------------------------------------------------ clock
\* begin_rdtsc() / end_rdtsc(): the counter has advanced since the last reading
TscReadings == {WrapU(tsc + d) : d \in TscSteps}

\* ------------------------------------------------------------ exit
\* exit(code) or a return from main: nothing of the program state changes
Exit(code) ==
    /\ pc' = "exited"
    /\ exit_code' = code

Init ==
    /\ mode \in Modes
    /\ flag \in Flags
    /\ arg \in ArgStrings
    /\ pc = "main"
    /\ i = 0
    /\ ticks = [k \in Slots |-> 0]
    /\ filled = {}
    /\ recorded = ticks
    /\ fd = -1
    /\ client_tsc_offset = 0
    /\ client_send_tsc = 0
    /\ begin_ts = 0
    /\ end_ts = 0
    /\ tsc = TscStart
    /\ op = "none"
    /\ rc = 0
    /\ last_read = 0
    /\ last_write = 0
    /\ exit_code = EXIT_SUCCESS
    /\ stdout = <<>>
    /\ sys = <<>>
    /\ PairIdle

\* ------------------------------------------------------------ main
\* main, lines 781-805 and the dispatch on argv[3] of lines 807, 840, 864
Main ==
    /\ pc = "main"
    /\ IF mode \notin {"vsock", "unix", "inet"}
       THEN Exit(EXIT_FAILURE)
       ELSE IF flag = "-s"
       THEN pc' = "listen" /\ UNCHANGED exit_code
       ELSE IF flag = "-c"
       THEN pc' = "connect" /\ UNCHANGED exit_code
       ELSE Exit(EXIT_FAILURE)
    /\ UNCHANGED <<mode, pairVars, flag, arg, i, ticks, recorded, filled, fd, client_tsc_offset,
                   client_send_tsc, begin_ts, end_ts, tsc, op, rc, last_read, last_write, stdout, sys>>

\* ------------------------------------------------------------ listen/accept
\* the calls of <mode>_listen_and_accept_single_client_connection, in order
ListenSteps(m) ==
    CASE m = "vsock" -> <<"socket", "bind", "listen", "accept", "getsockopt">>
      [] m = "unix"  -> <<"socket", "bind", "listen", "accept">>
      [] m = "inet"  -> <<"socket", "setsockopt", "bind", "listen", "accept">>

\* a cleanup that leaves the listening socket open after a successful accept
ListenCleanupNoClose(failed) ==
    CASE failed \in {"socket", "setsockopt"} -> <<>>
      [] failed \in {"bind", "listen", "accept"} -> <<"close_listen">>
      [] failed = "getsockopt" -> <<"close_client", "close_listen">>
      [] OTHER -> <<>>

\* the close() calls made when step `failed` fails ("" : none failed)
ListenCleanup(failed) ==
    CASE failed \in {"socket", "setsockopt"} -> <<>>
      [] failed \in {"bind", "listen", "accept"} -> <<"close_listen">>
      [] failed = "getsockopt" -> <<"close_client", "close_listen">>
      [] OTHER -> <<"close_listen">>

\* the descriptor accept() returns
AcceptedFd == 4

\* main, lines 809-824: k = 0 is success, k > 0 the failure of the k-th call
ListenAndAccept ==
    /\ pc = "listen"
    /\ \E k \in 0..Len(ListenSteps(mode)) :
         LET steps  == ListenSteps(mode)
             failed == IF k = 0 THEN "" ELSE steps[k]
             made   == IF k = 0 THEN steps ELSE SubSeq(steps, 1, k)
         IN /\ sys' = sys \o made \o ListenCleanup(failed)
            /\ IF failed = "setsockopt"
               THEN Exit(EXIT_FAILURE) /\ UNCHANGED fd
               ELSE /\ fd' = IF k = 0 THEN AcceptedFd ELSE -1
                    /\ pc' = "parse_offset"
                    /\ UNCHANGED exit_code
    /\ UNCHANGED <<mode, pairVars, flag, arg, i, ticks, recorded, filled, client_tsc_offset,
                   client_send_tsc, begin_ts, end_ts, tsc, op, rc, last_read, last_write, stdout>>

\* main, lines 826-833
ParseOffset ==
    /\ pc = "parse_offset"
    /\ client_tsc_offset' = parse_client_tsc_offset(arg)
    /\ IF client_tsc_offset' = -1
       THEN Exit(EXIT_FAILURE)
       ELSE pc' = "srv_read" /\ UNCHANGED exit_code
    /\ UNCHANGED <<mode, pairVars, flag, arg, i, ticks, recorded, filled, fd, client_send_tsc,
                   begin_ts, end_ts, tsc, op, rc, last_read, last_write, stdout, sys>>

\* ------------------------------------------------------------ read/write
\* what read(fd, buf, n) may return: -1, end of file, a short count, n
ReadResults(f, n) == IF f < 0 THEN {-1} ELSE {-1, 0, 1, n - 1, n}
\* what write(fd, buf, n) may return
WriteResults(f, n) == IF f < 0 THEN {-1} ELSE {-1, 0, n - 1, n}

\* ------------------------------------------------------------ loops
\* a loop that stops one iteration early
LoopRunsShort(n) == n < ITERATIONS - 1
\* the loop condition i<ITERATIONS of lines 590 and 703
LoopRuns(n) == n < ITERATIONS

\* ------------------------------------------------------------ run_server
\* a read check that only rejects a zero count
ServerReadFailsOnZeroOnly(bytes_read) == bytes_read <= 0
\* line 598, on size_t bytes_read
ServerReadFails(bytes_read) == bytes_read <= 0 \/ bytes_read # SizeofTsc
\* a write check that only rejects an error return
ServerWriteFailsOnNegative(w) == w < 0
\* line 606, on the ssize_t result of write()
ServerWriteFails(w) == w # SERVER_RESPONSE_LENGTH
\* a sample that leaves the offset out
ServerSampleNoOffset(t1, t0, offset) == WrapU(t1 - t0)
\* line 612, in unsigned 64-bit arithmetic
ServerSample(t1, t0, offset) == WrapU(t1 - t0 + offset)

\* lines 596-602
ServerRead ==
    /\ pc = "srv_read"
    /\ \E r \in ReadResults(fd, SizeofTsc) :
         /\ op' = "read"
         /\ rc' = r
         /\ last_read' = r
         /\ IF ServerReadFails(ToSizeT(r))
            THEN Exit(EXIT_FAILURE) /\ UNCHANGED client_send_tsc
            ELSE /\ client_send_tsc' \in WireTsc
                 /\ pc' = "srv_write"
                 /\ UNCHANGED exit_code
    /\ UNCHANGED <<last_write, mode, pairVars, flag, arg, i, ticks, recorded, filled, fd, client_tsc_offset,
                   begin_ts, end_ts, tsc, stdout, sys>>

\* lines 606-610
ServerWrite ==
    /\ pc = "srv_write"
    /\ \E w \in WriteResults(fd, SERVER_RESPONSE_LENGTH) :
         /\ op' = "write"
         /\ rc' = w
         /\ last_write' = w
         /\ IF ServerWriteFails(w)
            THEN Exit(EXIT_FAILURE)
            ELSE pc' = "srv_end" /\ UNCHANGED exit_code
    /\ UNCHANGED <<last_read, mode, pairVars, flag, arg, i, ticks, recorded, filled, fd, client_tsc_offset,
                   client_send_tsc, begin_ts, end_ts, tsc, stdout, sys>>

\* line 612 and the loop step of line 590
ServerEnd ==
    /\ pc = "srv_end"
    /\ \E t \in TscReadings :
         /\ tsc' = t
         /\ end_ts' = t
         /\ ticks' = [ticks EXCEPT
                        ![i] = ServerSample(t, client_send_tsc, client_tsc_offset)]
    /\ filled' = filled \cup {i}
    /\ recorded' = [k \in Slots |-> IF k = i THEN ticks'[i] ELSE recorded[k]]
    /\ i' = i + 1
    /\ pc' = IF LoopRuns(i + 1) THEN "srv_read" ELSE "srv_done"
    /\ UNCHANGED <<mode, pairVars, flag, arg, fd, client_tsc_offset, client_send_tsc,
                   begin_ts, op, rc, last_read, last_write, exit_code, stdout, sys>>

\* main, lines 835-838
ServerUnlink ==
    /\ pc = "srv_done"
    /\ sys' = IF mode = "unix" THEN Append(sys, "unlink") ELSE sys
    /\ pc' = "print"
    /\ UNCHANGED <<mode, pairVars, flag, arg, i, ticks, recorded, filled, fd, client_tsc_offset,
                   client_send_tsc, begin_ts, end_ts, tsc, op, rc, last_read, last_write, exit_code,
                   stdout>>

\* ------------------------------------------------------------ connect
\* inet_pton(AF_INET, s, ...): 1 for four dot-separated decimal octets
\* (k: position, n: digits of the current octet, v: its value, cnt: octets done)
RECURSIVE InetScan(_, _, _, _, _)
InetScan(s, k, n, v, cnt) ==
    IF k > Len(s) THEN n >= 1 /\ cnt = 3
    ELSE IF IsDigit(s[k])
    THEN LET v2 == v * 10 + DigitVal(s[k])
         IN /\ ~(n >= 1 /\ v = 0)
            /\ v2 <= 255
            /\ InetScan(s, k + 1, n + 1, v2, cnt)
    ELSE IF s[k] = "."
    THEN n >= 1 /\ cnt < 3 /\ InetScan(s, k + 1, 0, 0, cnt + 1)
    ELSE FALSE

inet_pton(s) == IF InetScan(s, 1, 0, 0, 0) THEN 1 ELSE 0

\* the descriptor socket() returns in the client
ConnectedFd == 3

\* whether <mode>_connect returns -1 before its socket() call:
\* vsock_connect line 627, inet_connect line 680
ConnectRefusesArg ==
    CASE mode = "vsock" -> parse_cid(arg) < 0
      [] mode = "inet"  -> inet_pton(arg) # 1
      [] OTHER          -> FALSE

\* main, lines 842-860: k = 0 is success, 1 a failed socket(), 2 a failed connect()
Connect ==
    /\ pc = "connect"
    /\ IF ConnectRefusesArg
       THEN fd' = -1 /\ UNCHANGED sys
       ELSE \E k \in 0..2 :
              /\ fd' = IF k = 0 THEN ConnectedFd ELSE -1
              /\ sys' = sys \o (CASE k = 0 -> <<"socket", "connect">>
                                  [] k = 1 -> <<"socket">>
                                  [] k = 2 -> <<"socket", "connect", "close_fd">>)
    /\ pc' = "cli_begin"
    /\ UNCHANGED <<mode, pairVars, flag, arg, i, ticks, recorded, filled, client_tsc_offset,
                   client_send_tsc, begin_ts, end_ts, tsc, op, rc, last_read, last_write, exit_code,
                   stdout>>

\* ------------------------------------------------------------ run_client
\* a write check that accepts any positive count
ClientWriteFailsOnNonPositive(w) == w <= 0
\* line 706: the ssize_t result is compared with sizeof(begin_ts), as size_t
ClientWriteFails(w) == ToSizeT(w) # SizeofTsc
\* a client that does not examine what read() returned
ClientReadFailsNever(bytes_read) == FALSE
\* line 715, on size_t bytes_read
ClientReadFails(bytes_read) == bytes_read <= 0
\* a sample with the two readings exchanged
ClientSampleReversed(t1, t0) == WrapU(t0 - t1)
\* line 723
ClientSample(t1, t0) == WrapU(t1 - t0)

\* line 705
ClientBegin ==
    /\ pc = "cli_begin"
    /\ \E t \in TscReadings :
         /\ tsc' = t
         /\ begin_ts' = t
    /\ pc' = "cli_write"
    /\ UNCHANGED <<mode, pairVars, flag, arg, i, ticks, recorded, filled, fd, client_tsc_offset,
                   client_send_tsc, end_ts, op, rc, last_read, last_write, exit_code, stdout, sys>>

\* lines 706-710
ClientWrite ==
    /\ pc = "cli_write"
    /\ \E w \in WriteResults(fd, SizeofTsc) :
         /\ op' = "write"
         /\ rc' = w
         /\ last_write' = w
         /\ IF ClientWriteFails(w)
            THEN Exit(EXIT_FAILURE)
            ELSE pc' = "cli_read" /\ UNCHANGED exit_code
    /\ UNCHANGED <<last_read, mode, pairVars, flag, arg, i, ticks, recorded, filled, fd, client_tsc_offset,
                   client_send_tsc, begin_ts, end_ts, tsc, stdout, sys>>

\* lines 712-719
ClientRead ==
    /\ pc = "cli_read"
    /\ \E r \in ReadResults(fd, SERVER_RESPONSE_LENGTH) :
         /\ op' = "read"
         /\ rc' = r
         /\ last_read' = r
         /\ IF ClientReadFails(ToSizeT(r))
            THEN Exit(EXIT_FAILURE)
            ELSE pc' = "cli_end" /\ UNCHANGED exit_code
    /\ UNCHANGED <<last_write, mode, pairVars, flag, arg, i, ticks, recorded, filled, fd, client_tsc_offset,
                   client_send_tsc, begin_ts, end_ts, tsc, stdout, sys>>

\* line 723 and the loop step of line 703
ClientEnd ==
    /\ pc = "cli_end"
    /\ \E t \in TscReadings :
         /\ tsc' = t
         /\ end_ts' = t
         /\ ticks' = [ticks EXCEPT ![i] = ClientSample(t, begin_ts)]
    /\ filled' = filled \cup {i}
    /\ recorded' = [k \in Slots |-> IF k = i THEN ticks'[i] ELSE recorded[k]]
    /\ i' = i + 1
    /\ pc' = IF LoopRuns(i + 1) THEN "cli_begin" ELSE "print"
    /\ UNCHANGED <<mode, pairVars, flag, arg, fd, client_tsc_offset, client_send_tsc,
                   begin_ts, op, rc, last_read, last_write, exit_code, stdout, sys>>

\* ------------------------------------------------------------ long double
RECURSIVE GCD(_, _)
GCD(a, b) == IF b = 0 THEN a ELSE GCD(b, a % b)

\* the rational n/d (d > 0, n >= 0) in lowest terms
Rat(n, d) == LET g == GCD(n, d) IN [num |-> n \div g, den |-> d \div g]

\* ------------------------------------------------------------ print_results
\* lines 727-730: the unsigned difference, returned as int
cmp_tsc_t(a, b) == ToInt(WrapU(a - b))

\* min initialised like max
StatsInitMinZero == [min |-> 0, max |-> 0, sum |-> 0]
\* lines 736-738
StatsInit == [min |-> ULONG_MAX, max |-> 0, sum |-> 0]

\* lines 739-746, from index k on: min, max and the tsc_t sum
RECURSIVE FirstLoop(_, _, _)
FirstLoop(t, k, acc) ==
    IF k >= ITERATIONS THEN acc
    ELSE FirstLoop(t, k + 1,
                   [min |-> IF t[k] < acc.min THEN t[k] ELSE acc.min,
                    max |-> IF t[k] > acc.max THEN t[k] ELSE acc.max,
                    sum |-> WrapU(acc.sum + t[k])])

\* the first loop run over every slot, the first included
LoopStatsFromZero(t) == FirstLoop(t, 0, StatsInit)
\* lines 736-746: the first loop, which starts at index 1
LoopStats(t) == FirstLoop(t, 1, StatsInit)

\* line 741: one line per sample of index 1..ITERATIONS-1
SampleLines(t) ==
    [k \in 1..(ITERATIONS - 1) |-> [line |-> "sample", idx |-> k, val |-> t[k]]]

\* line 748
Avg(sum) == Rat(sum, ITERATIONS)

\* lines 749-753, from index k on: the sum of (ticks[k] - avg)^2, as the
\* numerator over avg.den^2
RECURSIVE SecondLoop(_, _, _, _)
SecondLoop(t, k, avg, acc) ==
    IF k >= ITERATIONS THEN acc
    ELSE SecondLoop(t, k + 1, avg,
                    acc + (t[k] * avg.den - avg.num) * (t[k] * avg.den - avg.num))

\* line 754 without the sqrt: stddev / ITERATIONS
Radicand(t, avg) == Rat(SecondLoop(t, 1, avg, 0), avg.den * avg.den * ITERATIONS)

\* the median taken one slot further up
MedianIndexPlusOne == ITERATIONS \div 2 + 1
\* line 762: the index of the median in ticks
MedianIndex == ITERATIONS \div 2

\* the rearrangements of 1..n
PermsOf(n) == {p \in [1..n -> 1..n] : \A a, b \in 1..n : a # b => p[a] # p[b]}

Sgn(x) == IF x < 0 THEN -1 ELSE IF x > 0 THEN 1 ELSE 0

\* whether cmp_tsc_t orders the values of S consistently, as qsort requires
CmpConsistent(S) ==
    /\ \A a, b \in S : Sgn(cmp_tsc_t(a, b)) = -Sgn(cmp_tsc_t(b, a))
    /\ \A a, b, c \in S :
         cmp_tsc_t(a, b) <= 0 /\ cmp_tsc_t(b, c) <= 0 => cmp_tsc_t(a, c) <= 0

\* qsort(ticks, ITERATIONS, ...): a sort that starts at slot 0, which the
\* code does not run
QsortOutcomesWhole(t) ==
    LET arrs == { [k \in Slots |-> t[p[k + 1] - 1]] : p \in PermsOf(ITERATIONS) }
    IN IF CmpConsistent({t[k] : k \in Slots})
       THEN {a \in arrs : \A k \in 0..(ITERATIONS - 2) : cmp_tsc_t(a[k], a[k + 1]) <= 0}
       ELSE arrs

\* line 757, qsort(ticks+1, ITERATIONS-1, ..., cmp_tsc_t): the arrays it may
\* leave. With a consistent comparator, the rearrangements of ticks[1..] in
\* which cmp_tsc_t never puts an element after its successor; with an
\* inconsistent one the behaviour is undefined and any rearrangement may result.
QsortOutcomes(t) ==
    LET n    == ITERATIONS - 1
        arrs == { [k \in Slots |-> IF k = 0 THEN t[0] ELSE t[p[k]]] : p \in PermsOf(n) }
    IN IF CmpConsistent({t[k] : k \in 1..n})
       THEN {a \in arrs : \A k \in 1..(n - 1) : cmp_tsc_t(a[k], a[k + 1]) <= 0}
       ELSE arrs

\* lines 759-764
SummaryLines(t, acc, avg, rad) ==
    << [line |-> "initial", val |-> t[0]],
       [line |-> "min",     val |-> acc.min],
       [line |-> "max",     val |-> acc.max],
       [line |-> "median",  val |-> t[MedianIndex]],
       [line |-> "avg",     val |-> avg],
       [line |-> "stddev",  val |-> rad] >>

\* print_results, lines 732-765
PrintResults ==
    /\ pc = "print"
    /\ LET acc == LoopStats(ticks)
           avg == Avg(acc.sum)
           rad == Radicand(ticks, avg)
       IN \E sorted \in QsortOutcomes(ticks) :
            /\ ticks' = sorted
            /\ stdout' = stdout \o SampleLines(ticks) \o SummaryLines(sorted, acc, avg, rad)
    /\ pc' = "ret"
    /\ UNCHANGED <<recorded, mode, pairVars, flag, arg, i, filled, fd, client_tsc_offset,
                   client_send_tsc, begin_ts, end_ts, tsc, op, rc, last_read, last_write, exit_code, sys>>

\* main, line 872
MainReturn ==
    /\ pc = "ret"
    /\ Exit(EXIT_SUCCESS)
    /\ UNCHANGED <<mode, pairVars, flag, arg, i, ticks, recorded, filled, fd, client_tsc_offset,
                   client_send_tsc, begin_ts, end_ts, tsc, op, rc, last_read, last_write, stdout, sys>>

\* ------------------------------------------------------------ specifications
Next ==
    \/ Main
    \/ ListenAndAccept
    \/ ParseOffset
    \/ ServerRead
    \/ ServerWrite
    \/ ServerEnd
    \/ ServerUnlink
    \/ Connect
    \/ ClientBegin
    \/ ClientWrite
    \/ ClientRead
    \/ ClientEnd
    \/ PrintResults
    \/ MainReturn

Spec == Init /\ [][Next]_vars

\* print_results on every sample array: the process is a server that has
\* finished run_server; each slot holds any of StatSamples, which a peer can
\* produce by the timestamps it sends
StatSamples == {0, 10, 20, 30, INT_MAX + 11, ULONG_MAX}

InitStats ==
    /\ mode = "inet"
    /\ flag = "-s"
    /\ arg = <<"0">>
    /\ pc = "print"
    /\ i = ITERATIONS
    /\ ticks \in [Slots -> StatSamples]
    /\ filled = Slots
    /\ recorded = ticks
    /\ fd = AcceptedFd
    /\ client_tsc_offset = 0
    /\ tsc = TscStart + ITERATIONS
    /\ end_ts = tsc
    /\ client_send_tsc = WrapU(end_ts - ticks[ITERATIONS - 1])
    /\ begin_ts = 0
    /\ op = "write"
    /\ rc = SERVER_RESPONSE_LENGTH
    /\ last_read = SizeofTsc
    /\ last_write = SERVER_RESPONSE_LENGTH
    /\ exit_code = EXIT_SUCCESS
    /\ stdout = <<>>
    /\ sys = ListenSteps("inet") \o <<"close_listen">>
    /\ PairIdle

NextStats == PrintResults \/ MainReturn

SpecStats == InitStats /\ [][NextStats]_vars

\* ------------------------------------------------------------ round trip
\* src/vsock-latency-benchmark.c: the benchmark without a clock offset, over
\* vsock only. It has the same globals; its control points are the rt_ ones.
CLIENT_MESSAGE_LENGTH == 32

\* argv[2] is absent (argc = 2)
NoArg == <<"(none)">>
RTArgs == ArgStrings \cup {NoArg}

\* exit(code) or a return from main
RTExit(code) ==
    /\ pc' = "rt_exited"
    /\ exit_code' = code

InitRT ==
    /\ mode = "vsock"
    /\ flag \in Flags
    /\ arg \in RTArgs
    /\ pc = "rt_main"
    /\ i = 0
    /\ ticks = [k \in Slots |-> 0]
    /\ filled = {}
    /\ recorded = ticks
    /\ fd = -1
    /\ client_tsc_offset = 0
    /\ client_send_tsc = 0
    /\ begin_ts = 0
    /\ end_ts = 0
    /\ tsc = TscStart
    /\ op = "none"
    /\ rc = 0
    /\ last_read = 0
    /\ last_write = 0
    /\ exit_code = EXIT_SUCCESS
    /\ stdout = <<>>
    /\ sys = <<>>
    /\ PairIdle

\* main, lines 247-261
RTMain ==
    /\ pc = "rt_main"
    /\ IF flag = "-s" /\ arg = NoArg
       THEN pc' = "rt_listen" /\ UNCHANGED exit_code
       ELSE IF flag = "-c" /\ arg # NoArg
       THEN pc' = "rt_connect" /\ UNCHANGED exit_code
       ELSE RTExit(EXIT_FAILURE)
    /\ UNCHANGED <<mode, pairVars, flag, arg, i, ticks, recorded, filled, fd, client_tsc_offset,
                   client_send_tsc, begin_ts, end_ts, tsc, op, rc, last_read,
                   last_write, stdout, sys>>

\* the calls of vsock_listen_and_accept_single_client_connection, in order
RTListenSteps == <<"socket", "bind", "listen", "accept">>

\* the close() calls made when step `failed` fails ("" : none failed)
RTListenCleanup(failed) ==
    IF failed = "socket" THEN <<>> ELSE <<"close_listen">>

\* run_server, line 152: k = 0 is success, k > 0 the failure of the k-th call.
\* The result is not examined.
RTListenAndAccept ==
    /\ pc = "rt_listen"
    /\ \E k \in 0..Len(RTListenSteps) :
         LET failed == IF k = 0 THEN "" ELSE RTListenSteps[k]
             made   == IF k = 0 THEN RTListenSteps ELSE SubSeq(RTListenSteps, 1, k)
         IN /\ sys' = sys \o made \o RTListenCleanup(failed)
            /\ fd' = IF k = 0 THEN AcceptedFd ELSE -1
    /\ pc' = "rt_srv_begin"
    /\ UNCHANGED <<mode, pairVars, flag, arg, i, ticks, recorded, filled, client_tsc_offset,
                   client_send_tsc, begin_ts, end_ts, tsc, op, rc, last_read,
                   last_write, exit_code, stdout>>

\* line 163, on size_t bytes_read
RTServerReadFails(bytes_read) == bytes_read <= 0
\* a write check made on the result converted to size_t
RTServerWriteFailsUnsigned(w) == ToSizeT(w) <= 0
\* line 171, on the ssize_t result of write()
RTServerWriteFails(w) == w <= 0
\* lines 177 and 235
RTSample(t1, t0) == WrapU(t1 - t0)

\* line 159
RTServerBegin ==
    /\ pc = "rt_srv_begin"
    /\ \E t \in TscReadings :
         /\ tsc' = t
         /\ begin_ts' = t
    /\ pc' = "rt_srv_read"
    /\ UNCHANGED <<mode, pairVars, flag, arg, i, ticks, recorded, filled, fd, client_tsc_offset,
                   client_send_tsc, end_ts, op, rc, last_read, last_write, exit_code,
                   stdout, sys>>

\* lines 161-167
RTServerRead ==
    /\ pc = "rt_srv_read"
    /\ \E r \in ReadResults(fd, CLIENT_MESSAGE_LENGTH) :
         /\ op' = "read"
         /\ rc' = r
         /\ last_read' = r
         /\ IF RTServerReadFails(ToSizeT(r))
            THEN RTExit(EXIT_FAILURE)
            ELSE pc' = "rt_srv_write" /\ UNCHANGED exit_code
    /\ UNCHANGED <<mode, pairVars, flag, arg, i, ticks, recorded, filled, fd, client_tsc_offset,
                   client_send_tsc, begin_ts, end_ts, tsc, last_write, stdout, sys>>

\* lines 171-175
RTServerWrite ==
    /\ pc = "rt_srv_write"
    /\ \E w \in WriteResults(fd, SERVER_RESPONSE_LENGTH) :
         /\ op' = "write"
         /\ rc' = w
         /\ last_write' = w
         /\ IF RTServerWriteFails(w)
            THEN RTExit(EXIT_FAILURE)
            ELSE pc' = "rt_srv_end" /\ UNCHANGED exit_code
    /\ UNCHANGED <<mode, pairVars, flag, arg, i, ticks, recorded, filled, fd, client_tsc_offset,
                   client_send_tsc, begin_ts, end_ts, tsc, last_read, stdout, sys>>

\* line 177 and the loop step of line 154
RTServerEnd ==
    /\ pc = "rt_srv_end"
    /\ \E t \in TscReadings :
         /\ tsc' = t
         /\ end_ts' = t
         /\ ticks' = [ticks EXCEPT ![i] = RTSample(t, begin_ts)]
    /\ filled' = filled \cup {i}
    /\ recorded' = [k \in Slots |-> IF k = i THEN ticks'[i] ELSE recorded[k]]
    /\ i' = i + 1
    /\ pc' = IF LoopRuns(i + 1) THEN "rt_srv_begin" ELSE "rt_print"
    /\ UNCHANGED <<mode, pairVars, flag, arg, fd, client_tsc_offset, client_send_tsc,
                   begin_ts, op, rc, last_read, last_write, exit_code, stdout, sys>>

\* run_client, line 213, and vsock_connect, lines 181-209: a cid that does
\* not parse makes no call; else k = 0 is success, 1 a failed socket(), 2 a
\* failed connect(). The result is not examined.
RTConnect ==
    /\ pc = "rt_connect"
    /\ IF parse_cid(arg) < 0
       THEN fd' = -1 /\ UNCHANGED sys
       ELSE \E k \in 0..2 :
              /\ fd' = IF k = 0 THEN ConnectedFd ELSE -1
              /\ sys' = sys \o (CASE k = 0 -> <<"socket", "connect">>
                                  [] k = 1 -> <<"socket">>
                                  [] k = 2 -> <<"socket", "connect", "close_fd">>)
    /\ pc' = "rt_cli_begin"
    /\ UNCHANGED <<mode, pairVars, flag, arg, i, ticks, recorded, filled, client_tsc_offset,
                   client_send_tsc, begin_ts, end_ts, tsc, op, rc, last_read,
                   last_write, exit_code, stdout>>

\* line 219, on the ssize_t result of write()
RTClientWriteFails(w) == w # CLIENT_MESSAGE_LENGTH
\* line 227, on size_t bytes_read
RTClientReadFails(bytes_read) == bytes_read <= 0

\* line 217
RTClientBegin ==
    /\ pc = "rt_cli_begin"
    /\ \E t \in TscReadings :
         /\ tsc' = t
         /\ begin_ts' = t
    /\ pc' = "rt_cli_write"
    /\ UNCHANGED <<mode, pairVars, flag, arg, i, ticks, recorded, filled, fd, client_tsc_offset,
                   client_send_tsc, end_ts, op, rc, last_read, last_write, exit_code,
                   stdout, sys>>

\* lines 219-223
RTClientWrite ==
    /\ pc = "rt_cli_write"
    /\ \E w \in WriteResults(fd, CLIENT_MESSAGE_LENGTH) :
         /\ op' = "write"
         /\ rc' = w
         /\ last_write' = w
         /\ IF RTClientWriteFails(w)
            THEN RTExit(EXIT_FAILURE)
            ELSE pc' = "rt_cli_read" /\ UNCHANGED exit_code
    /\ UNCHANGED <<mode, pairVars, flag, arg, i, ticks, recorded, filled, fd, client_tsc_offset,
                   client_send_tsc, begin_ts, end_ts, tsc, last_read, stdout, sys>>

\* lines 225-231
RTClientRead ==
    /\ pc = "rt_cli_read"
    /\ \E r \in ReadResults(fd, SERVER_RESPONSE_LENGTH) :
         /\ op' = "read"
         /\ rc' = r
         /\ last_read' = r
         /\ IF RTClientReadFails(ToSizeT(r))
            THEN RTExit(EXIT_FAILURE)
            ELSE pc' = "rt_cli_end" /\ UNCHANGED exit_code
    /\ UNCHANGED <<mode, pairVars, flag, arg, i, ticks, recorded, filled, fd, client_tsc_offset,
                   client_send_tsc, begin_ts, end_ts, tsc, last_write, stdout, sys>>

\* line 235 and the loop step of line 215
RTClientEnd ==
    /\ pc = "rt_cli_end"
    /\ \E t \in TscReadings :
         /\ tsc' = t
         /\ end_ts' = t
         /\ ticks' = [ticks EXCEPT ![i] = RTSample(t, begin_ts)]
    /\ filled' = filled \cup {i}
    /\ recorded' = [k \in Slots |-> IF k = i THEN ticks'[i] ELSE recorded[k]]
    /\ i' = i + 1
    /\ pc' = IF LoopRuns(i + 1) THEN "rt_cli_begin" ELSE "rt_print"
    /\ UNCHANGED <<mode, pairVars, flag, arg, fd, client_tsc_offset, client_send_tsc,
                   begin_ts, op, rc, last_read, last_write, exit_code, stdout, sys>>

\* print_results, lines 239-245: one line per slot, slot 0 included
RTPrintResults ==
    /\ pc = "rt_print"
    /\ stdout' = [k \in 1..ITERATIONS |->
                    [line |-> "sample", idx |-> k - 1, val |-> ticks[k - 1]]]
    /\ pc' = "rt_ret"
    /\ UNCHANGED <<mode, pairVars, flag, arg, i, ticks, recorded, filled, fd, client_tsc_offset,
                   client_send_tsc, begin_ts, end_ts, tsc, op, rc, last_read,
                   last_write, exit_code, sys>>

\* main, line 265
RTMainReturn ==
    /\ pc = "rt_ret"
    /\ RTExit(EXIT_SUCCESS)
    /\ UNCHANGED <<mode, pairVars, flag, arg, i, ticks, recorded, filled, fd, client_tsc_offset,
                   client_send_tsc, begin_ts, end_ts, tsc, op, rc, last_read,
                   last_write, stdout, sys>>

NextRT ==
    \/ RTMain
    \/ RTListenAndAccept
    \/ RTServerBegin
    \/ RTServerRead
    \/ RTServerWrite
    \/ RTServerEnd
    \/ RTConnect
    \/ RTClientBegin
    \/ RTClientWrite
    \/ RTClientRead
    \/ RTClientEnd
    \/ RTPrintResults
    \/ RTMainReturn

SpecRT == InitRT /\ [][NextRT]_vars

\* either program
InitBoth == Init \/ InitRT
NextBoth == Next \/ NextRT
SpecBoth == InitBoth /\ [][NextBoth]_vars

\* ------------------------------------------------------------ connected pair
\* run_client in one process and run_server in another, joined by the stream
\* socket that connect/accept returned. Both sockets are blocking and have no
\* timeout; neither process handles a signal. The two read one cycle counter.
PairOffsets == {0, 2}
PairTscSteps == {1}

\* a process run on its own is not modelled: its variables are at rest
SoloIdle ==
    /\ mode = "inet"
    /\ flag = "-s"
    /\ arg = <<"0">>
    /\ pc = "paired"
    /\ i = 0
    /\ ticks = [k \in Slots |-> 0]
    /\ filled = {}
    /\ recorded = ticks
    /\ fd = -1
    /\ client_tsc_offset = 0
    /\ client_send_tsc = 0
    /\ begin_ts = 0
    /\ end_ts = 0
    /\ tsc = TscStart
    /\ op = "none"
    /\ rc = 0
    /\ last_read = 0
    /\ last_write = 0
    /\ exit_code = EXIT_SUCCESS
    /\ stdout = <<>>
    /\ sys = <<>>

\* the process has terminated, which closes its socket
Gone(p) == p.pc \in {"exited", "killed"}

\* begin_rdtsc() / end_rdtsc() on the shared counter
PairReadings == {WrapU(now + d) : d \in PairTscSteps}

\* a read() that gives up with an error when nothing arrives
PairReadResultsWithTimeout(q, toPeer, peer_gone, n) ==
    IF q # <<>> THEN {n}
    ELSE IF ~peer_gone THEN {-1}
    ELSE IF toPeer # <<>> THEN {-1} ELSE {0}
\* read(fd, buf, n), lines 597 and 712, on a blocking socket: q is what was
\* written to this end and is unread, toPeer what this end wrote and the peer
\* has not read. With nothing to read and the peer alive there is no result:
\* the call does not return. After the peer closed: end of file, or
\* ECONNRESET when the peer left data of this end unread.
PairReadResults(q, toPeer, peer_gone, n) ==
    IF q # <<>> THEN {n}
    ELSE IF ~peer_gone THEN {}
    ELSE IF toPeer # <<>> THEN {-1} ELSE {0}

\* write(fd, buf, n), lines 606 and 706: to a live peer the n bytes are
\* queued; to a closed one the call fails (EPIPE), or, on a connection not
\* yet reset, is still accepted
PairWriteResults(toPeer, peer_gone, n) ==
    IF ~peer_gone THEN {n}
    ELSE IF toPeer # <<>> THEN {-1} ELSE {n, -1}

\* a request that carries the previous end reading
ClientRequestStale(b, e) == e
\* line 706: the 8 bytes written are those of begin_ts
ClientRequest(b, e) == b

\* print_results, lines 732-765, run by process p of the pair, leaves it as q
\* (the statistics are those of PrintResults)
PairPrints(p, q) ==
    \E acc \in {LoopStats(p.ticks)} :
      \E avg \in {Avg(acc.sum)} :
        \E rad \in {Radicand(p.ticks, avg)} :
          \E sorted \in QsortOutcomes(p.ticks) :
            q = [p EXCEPT !.pc = "ret", !.ticks = sorted,
                          !.out = SampleLines(p.ticks) \o
                                  SummaryLines(sorted, acc, avg, rad)]

InitPair ==
    /\ SoloIdle
    /\ cli = [pc |-> "begin", i |-> 0, ticks |-> [k \in Slots |-> 0],
              begin_ts |-> 0, end_ts |-> 0, last_read |-> 0,
              sent |-> [k \in Slots |-> 0], writes |-> 0, reads |-> 0,
              exit_code |-> EXIT_SUCCESS, out |-> <<>>]
    /\ \E o \in PairOffsets :
         srv = [pc |-> "read", i |-> 0, ticks |-> [k \in Slots |-> 0],
                client_send_tsc |-> 0, client_tsc_offset |-> o, end_ts |-> 0,
                got |-> [k \in Slots |-> 0], reads |-> 0, writes |-> 0,
                exit_code |-> EXIT_SUCCESS, out |-> <<>>]
    /\ req = <<>>
    /\ ack = <<>>
    /\ now = TscStart
    /\ death = [who |-> "none"]

\* exit(EXIT_FAILURE) in process p
PairExit(p) == [p EXCEPT !.pc = "exited", !.exit_code = EXIT_FAILURE]

\* run_client, line 705
PClientBegin ==
    /\ cli.pc = "begin"
    /\ \E t \in PairReadings :
         /\ now' = t
         /\ cli' = [cli EXCEPT !.pc = "write", !.begin_ts = t]
    /\ UNCHANGED <<soloVars, srv, req, ack, death>>

\* run_client, lines 706-710
PClientWrite ==
    /\ cli.pc = "write"
    /\ \E w \in PairWriteResults(req, Gone(srv), SizeofTsc) :
         IF ClientWriteFails(w)
         THEN cli' = PairExit(cli) /\ UNCHANGED req
         ELSE LET m == ClientRequest(cli.begin_ts, cli.end_ts)
              IN /\ req' = Append(req, m)
                 /\ cli' = [cli EXCEPT !.pc = "read", !.writes = @ + 1,
                                       !.sent[cli.i] = cli.begin_ts]
    /\ UNCHANGED <<soloVars, srv, ack, now, death>>

\* run_client, lines 712-719
PClientRead ==
    /\ cli.pc = "read"
    /\ \E r \in PairReadResults(ack, req, Gone(srv), SERVER_RESPONSE_LENGTH) :
         /\ ack' = IF r > 0 THEN Tail(ack) ELSE ack
         /\ IF ClientReadFails(ToSizeT(r))
            THEN cli' = [PairExit(cli) EXCEPT !.last_read = r]
            ELSE cli' = [cli EXCEPT !.pc = "end", !.last_read = r,
                                    !.reads = IF r > 0 THEN @ + 1 ELSE @]
    /\ UNCHANGED <<soloVars, srv, req, now, death>>

\* run_client, line 723 and the loop step of line 703
PClientEnd ==
    /\ cli.pc = "end"
    /\ \E t \in PairReadings :
         /\ now' = t
         /\ cli' = [cli EXCEPT !.end_ts = t,
                               !.ticks[cli.i] = ClientSample(t, cli.begin_ts),
                               !.i = @ + 1,
                               !.pc = IF LoopRuns(cli.i + 1) THEN "begin" ELSE "print"]
    /\ UNCHANGED <<soloVars, srv, req, ack, death>>

\* main, line 870, in the client
PClientPrint ==
    /\ cli.pc = "print"
    /\ PairPrints(cli, cli')
    /\ UNCHANGED <<soloVars, srv, req, ack, now, death>>

\* main, line 872, in the client
PClientReturn ==
    /\ cli.pc = "ret"
    /\ cli' = [cli EXCEPT !.pc = "exited", !.exit_code = EXIT_SUCCESS]
    /\ UNCHANGED <<soloVars, srv, req, ack, now, death>>

\* run_server, lines 596-602
PServerRead ==
    /\ srv.pc = "read"
    /\ \E r \in PairReadResults(req, ack, Gone(cli), SizeofTsc) :
         IF ServerReadFails(ToSizeT(r))
         THEN srv' = PairExit(srv) /\ UNCHANGED req
         ELSE /\ req' = Tail(req)
              /\ srv' = [srv EXCEPT !.pc = "write", !.client_send_tsc = Head(req),
                                    !.got[srv.i] = Head(req), !.reads = @ + 1]
    /\ UNCHANGED <<soloVars, cli, ack, now, death>>

\* run_server, lines 606-610
PServerWrite ==
    /\ srv.pc = "write"
    /\ \E w \in PairWriteResults(ack, Gone(cli), SERVER_RESPONSE_LENGTH) :
         IF ServerWriteFails(w)
         THEN srv' = PairExit(srv) /\ UNCHANGED ack
         ELSE /\ ack' = Append(ack, "s")
              /\ srv' = [srv EXCEPT !.pc = "end", !.writes = @ + 1]
    /\ UNCHANGED <<soloVars, cli, req, now, death>>

\* run_server, line 612 and the loop step of line 590
PServerEnd ==
    /\ srv.pc = "end"
    /\ \E t \in PairReadings :
         /\ now' = t
         /\ srv' = [srv EXCEPT !.end_ts = t,
                               !.ticks[srv.i] = ServerSample(t, srv.client_send_tsc,
                                                             srv.client_tsc_offset),
                               !.i = @ + 1,
                               !.pc = IF LoopRuns(srv.i + 1) THEN "read" ELSE "print"]
    /\ UNCHANGED <<soloVars, cli, req, ack, death>>

\* main, line 870, in the server
PServerPrint ==
    /\ srv.pc = "print"
    /\ PairPrints(srv, srv')
    /\ UNCHANGED <<soloVars, cli, req, ack, now, death>>

\* main, line 872, in the server
PServerReturn ==
    /\ srv.pc = "ret"
    /\ srv' = [srv EXCEPT !.pc = "exited", !.exit_code = EXIT_SUCCESS]
    /\ UNCHANGED <<soloVars, cli, req, ack, now, death>>

\* a signal ends one of the processes inside its loop (no handler is
\* installed); at most one such death is considered
PAbort ==
    /\ death.who = "none"
    /\ \/ /\ cli.pc \in {"begin", "write", "read", "end"}
          /\ cli' = [cli EXCEPT !.pc = "killed", !.exit_code = EXIT_FAILURE]
          /\ death' = [who |-> "cli", at |-> cli.i, peer_i |-> srv.i]
          /\ UNCHANGED srv
       \/ /\ srv.pc \in {"read", "write", "end"}
          /\ srv' = [srv EXCEPT !.pc = "killed", !.exit_code = EXIT_FAILURE]
          /\ death' = [who |-> "srv", at |-> srv.i, peer_i |-> cli.i]
          /\ UNCHANGED cli
    /\ UNCHANGED <<soloVars, req, ack, now>>

PClientStep ==
    \/ PClientBegin
    \/ PClientWrite
    \/ PClientRead
    \/ PClientEnd
    \/ PClientPrint
    \/ PClientReturn

PServerStep ==
    \/ PServerRead
    \/ PServerWrite
    \/ PServerEnd
    \/ PServerPrint
    \/ PServerReturn

\* both processes run undisturbed; the scheduler lets each run again and again
NextPair == PClientStep \/ PServerStep
SpecPair == InitPair /\ [][NextPair]_vars /\ WF_vars(PClientStep) /\ WF_vars(PServerStep)

\* one of the two may die
NextPairAbort == NextPair \/ PAbort
SpecPairAbort ==
    InitPair /\ [][NextPairAbort]_vars /\ WF_vars(PClientStep) /\ WF_vars(PServerStep)

\* ------------------------------------------------------------ properties
\* the bytes a write() of the running role was asked to write
Requested == IF flag = "-s" THEN SERVER_RESPONSE_LENGTH ELSE SizeofTsc

\* the process died with an error status and printed nothing
DiedSilently == pc = "exited" /\ exit_code # EXIT_SUCCESS /\ stdout = <<>>

\* C1: print_results starts only when every slot of ticks was assigned by a
\* finished iteration of run_server / run_client; a run that terminates any
\* other way exits with a non-zero status and has printed no report line.
C1_AllOrNothing ==
    /\ pc \in {"print", "ret"} => filled = Slots /\ i = ITERATIONS
    /\ stdout # <<>> => filled = Slots
    /\ pc = "exited" =>
         \/ exit_code = EXIT_SUCCESS /\ filled = Slots /\ stdout # <<>>
         \/ exit_code # EXIT_SUCCESS /\ stdout = <<>>

\* a run that died after some, but not all, samples were recorded
C1_Witness ==
    /\ DiedSilently
    /\ filled # {}
    /\ filled # Slots

\* C2: in the client, a read() of the ACK that returns -1 or 0 ends the
\* process at once with a non-zero status, ticks[i] unassigned and nothing
\* printed.
C2_ClientReadFailureFatal ==
    (flag = "-c" /\ op = "read" /\ rc <= 0) =>
        (DiedSilently /\ i \notin filled)

\* C3: in either role, a write() that returns less than was requested ends
\* the process with a non-zero status before ticks[i] or a later slot is
\* assigned, and none of ticks[0..i-1] is ever printed.
C3_ShortWriteFatal ==
    (op = "write" /\ rc < Requested) =>
        (DiedSilently /\ filled = 0..(i - 1))

\* a client whose write was cut short after samples had been recorded
C3_Witness ==
    /\ flag = "-c"
    /\ op = "write"
    /\ rc = SizeofTsc - 1
    /\ i > 0
    /\ pc = "exited"

\* C4: in the server, a read() of the request that returns anything but
\* sizeof(tsc_t) ends the process with a non-zero status; no ACK is written
\* for iteration i (the read stays the last call made) and ticks[i] is not
\* assigned.
C4_ServerReadMismatchFatal ==
    (flag = "-s" /\ op = "read" /\ rc # SizeofTsc) =>
        (pc = "exited" /\ exit_code # EXIT_SUCCESS /\ i \notin filled)

\* a server whose read came back one byte short in a later iteration
C4_Witness ==
    /\ flag = "-s"
    /\ op = "read"
    /\ rc = SizeofTsc - 1
    /\ i > 0
    /\ pc = "exited"

\* the server has just assigned ticks[i-1] from end_ts and client_send_tsc
ServerRecorded == flag = "-s" /\ i > 0 /\ pc \in {"srv_read", "srv_done"}

\* C5 as stated: for t1 > t0 and every offset the server records exactly the
\* integer t1 - t0 + offset.
C5_ExactSample ==
    (ServerRecorded /\ end_ts > client_send_tsc) =>
        ticks[i - 1] = end_ts - client_send_tsc + client_tsc_offset

\* C5, amended: for t1 > t0 the server records t1 - t0 + offset reduced
\* modulo 2^TscBits (unsigned arithmetic), which is t1 - t0 + offset itself
\* whenever that is a tsc_t value; t0=1000, t1=1500, offset=-200 records 300.
C5_WrappedSample ==
    (ServerRecorded /\ end_ts > client_send_tsc) =>
        LET exact == end_ts - client_send_tsc + client_tsc_offset
        IN /\ ticks[i - 1] = exact % TscMod
           /\ (exact \in 0..ULONG_MAX => ticks[i - 1] = exact)
           /\ (client_send_tsc = 1000 /\ end_ts = 1500 /\ client_tsc_offset = -200
                 => ticks[i - 1] = 300)

\* the scenario t0=1000, t1=1500, offset=-200
C5_Witness ==
    /\ ServerRecorded
    /\ client_send_tsc = 1000
    /\ end_ts = 1500
    /\ client_tsc_offset = -200
    /\ ticks[i - 1] = 300

\* ---- the report of print_results
\* print_results has printed its report
Printed == stdout # <<>>

\* the value on the summary line named k
Line(k) ==
    LET j == CHOOSE j \in 1..Len(stdout) : stdout[j].line = k
    IN stdout[j].val

\* the samples the statistics are about: ticks[1..ITERATIONS-1]
Post == [k \in 1..(ITERATIONS - 1) |-> ticks[k]]

\* the samples in the order the sample lines show them (before the sort)
PostAsPrinted == [k \in 1..(ITERATIONS - 1) |-> stdout[k].val]

\* the integer sum of seq[k..]
RECURSIVE SumFrom(_, _)
SumFrom(seq, k) ==
    IF k > Len(seq) THEN 0 ELSE seq[k] + SumFrom(seq, k + 1)

\* seq in ascending order of its values
SortedAsc(seq) ==
    LET n == Len(seq)
        p == CHOOSE q \in PermsOf(n) : \A k \in 1..(n - 1) : seq[q[k]] <= seq[q[k + 1]]
    IN [k \in 1..n |-> seq[p[k]]]

\* every difference of two samples is representable as an int
DiffsFitInt(seq) ==
    \A a, b \in 1..Len(seq) : seq[a] - seq[b] <= INT_MAX

\* C6: the mean on the avg line is the sum of ticks[1..N-1] divided by N-1,
\* stated as mean * (N-1) = sum.
C6_MeanOverPostCount ==
    Printed =>
        Line("avg").num * (ITERATIONS - 1) = SumFrom(Post, 1) * Line("avg").den

\* C7: the stddev line is 0 whenever ticks[1..N-1] all hold one value.
C7_StddevZeroWhenEqual ==
    (Printed /\ \A a, b \in 1..(ITERATIONS - 1) : ticks[a] = ticks[b]) =>
        Line("stddev").num = 0

\* C8 as stated: the median line is the element at 0-based index N div 2 of
\* the ascending ticks[1..N-1]; for samples 10, 20, 30 and N = 4 it is 30.
C8_MedianAtHalfNOfPost ==
    Printed =>
        /\ Line("median") = SortedAsc(Post)[ITERATIONS \div 2 + 1]
        /\ (ITERATIONS = 4 /\ SortedAsc(Post) = <<10, 20, 30>> => Line("median") = 30)

\* C8, amended: the median line is ticks[N div 2] of the whole array after
\* the sort, that is the element at 0-based index N div 2 - 1 of the sorted
\* ticks[1..N-1], which is in ascending order when every difference of two
\* samples fits an int; for samples 10, 20, 30 and N = 4 it is 20.
C8_MedianAtHalfNOfTicks ==
    Printed =>
        /\ Line("median") = ticks[ITERATIONS \div 2]
        /\ (DiffsFitInt(Post) => Line("median") = SortedAsc(Post)[ITERATIONS \div 2])
        /\ (ITERATIONS = 4 /\ SortedAsc(Post) = <<10, 20, 30>> => Line("median") = 20)

\* the samples 30, 10, 20 were recorded in that order and the median is 20
C8_Witness ==
    /\ Printed
    /\ PostAsPrinted = <<30, 10, 20>>
    /\ Line("median") = 20

\* C9: min <= median <= max on the report, min and max being the least and
\* the greatest of ticks[1..N-1].
C9_MinMedianMax ==
    Printed =>
        /\ Line("min") <= Line("median")
        /\ Line("median") <= Line("max")
        /\ \E k \in 1..(ITERATIONS - 1) : Line("min") = ticks[k]
        /\ \E k \in 1..(ITERATIONS - 1) : Line("max") = ticks[k]
        /\ \A k \in 1..(ITERATIONS - 1) : Line("min") <= ticks[k] /\ ticks[k] <= Line("max")

\* a report over three distinct samples that cmp_tsc_t cannot order
C9_Witness ==
    /\ Printed
    /\ Line("min") < Line("median")
    /\ Line("median") < Line("max")
    /\ ~CmpConsistent({ticks[k] : k \in 1..(ITERATIONS - 1)})

\* the squared distances of seq[k..] from the mean of seq, summed, times
\* Len(seq)^2
RECURSIVE SqDevFrom(_, _)
SqDevFrom(seq, k) ==
    IF k > Len(seq) THEN 0
    ELSE LET d == seq[k] * Len(seq) - SumFrom(seq, 1)
         IN d * d + SqDevFrom(seq, k + 1)

\* C10: the radicand of the stddev line is the population variance of
\* ticks[1..N-1]: the sum of (x - mean)^2 over them divided by N-1, mean being
\* their average.
C10_PopulationVariance ==
    Printed =>
        Line("stddev") =
            Rat(SqDevFrom(Post, 1),
                (ITERATIONS - 1) * (ITERATIONS - 1) * (ITERATIONS - 1))

\* ---- the first sample and the array after the report
\* the array print_results was given, read back from the lines it printed
\* before the sort
AsPrinted ==
    [k \in Slots |-> IF k = 0 THEN Line("initial") ELSE stdout[k].val]

\* the min, max, median, avg and stddev lines of the report
StatLines == SubSeq(stdout, ITERATIONS + 1, ITERATIONS + 5)

\* the min, max, median, avg and stddev lines print_results may print for t
StatLinesFor(t) ==
    LET acc == LoopStats(t)
        avg == Avg(acc.sum)
        rad == Radicand(t, avg)
    IN {Tail(SummaryLines(sorted, acc, avg, rad)) : sorted \in QsortOutcomes(t)}

\* C11: ticks[0] appears only on the initial line and influences no other
\* statistic: a run on the same array with any other ticks[0] may print the
\* same min, max, median, avg and stddev lines.
C11_FirstSampleExcluded ==
    Printed =>
        /\ Line("initial") = ticks[0]
        /\ \A j \in 1..Len(stdout) : stdout[j].line = "sample" => stdout[j].idx # 0
        /\ \A v \in StatSamples :
             StatLines \in StatLinesFor([AsPrinted EXCEPT ![0] = v])

\* a report whose first sample lies above every other sample
C11_Witness ==
    /\ Printed
    /\ Line("initial") > Line("max")
    /\ Line("min") > 0

\* the number of slots from 1 on in which t holds v
CountIn(t, v) == Cardinality({k \in 1..(ITERATIONS - 1) : t[k] = v})

\* C12 as stated: after print_results every slot of ticks holds the value its
\* iteration recorded.
C12_SamplesUntouched ==
    Printed => ticks = recorded

\* C12: print_results leaves ticks[0] as recorded and only rearranges
\* ticks[1..N-1]: every value occurs there as often as it was recorded, and
\* the sample lines show the values in recording order.
C12_SamplesRearranged ==
    Printed =>
        /\ ticks[0] = recorded[0]
        /\ \A k \in 1..(ITERATIONS - 1) :
             CountIn(ticks, recorded[k]) = CountIn(recorded, recorded[k])
        /\ \A k \in 1..(ITERATIONS - 1) : stdout[k].val = recorded[k]

\* a report after which the sort has moved samples, the first one being
\* neither the smallest nor the largest recorded
C12_Witness ==
    /\ Printed
    /\ ticks # recorded
    /\ \E a, b \in 1..(ITERATIONS - 1) : recorded[a] < recorded[0] /\ recorded[0] < recorded[b]

\* the argument is a decimal numeral: an optional sign, then digits only
WellFormedDecimal(s) ==
    LET b == IF Len(s) >= 1 /\ s[1] \in {"-", "+"} THEN 2 ELSE 1
    IN /\ Len(s) >= b
       /\ \A k \in b..Len(s) : IsDigit(s[k])

\* the value of the digits s[b..k]
RECURSIVE DecMagnitude(_, _, _)
DecMagnitude(s, b, k) ==
    IF k < b THEN 0 ELSE 10 * DecMagnitude(s, b, k - 1) + DigitVal(s[k])

\* the integer a decimal numeral denotes
DecValue(s) ==
    LET neg == s[1] = "-"
        b   == IF s[1] \in {"-", "+"} THEN 2 ELSE 1
        m   == DecMagnitude(s, b, Len(s))
    IN IF neg THEN -m ELSE m

\* the run takes argv[4] as a number: the clock offset of a server, the
\* context identifier of a vsock client
NumericArgRun ==
    /\ mode \in {"vsock", "unix", "inet"}
    /\ flag = "-s" \/ (flag = "-c" /\ mode = "vsock")

\* C13 as stated: with a malformed numeric argument the process makes no
\* socket, bind, listen, accept or connect call, records no sample, prints no
\* report and exits with a non-zero code.
C13_MalformedArgRejectedEarly ==
    (NumericArgRun /\ ~WellFormedDecimal(arg)) =>
        /\ sys = <<>>
        /\ filled = {}
        /\ stdout = <<>>
        /\ pc = "exited" => exit_code # EXIT_SUCCESS

\* C15 as stated: for every well-formed decimal argument that denotes a signed
\* 64-bit value, the server goes on to the protocol with exactly that value
\* as client_tsc_offset.
C15_OffsetAppliedExactly ==
    [][(/\ pc = "parse_offset"
        /\ WellFormedDecimal(arg)
        /\ DecValue(arg) \in LLONG_MIN..LLONG_MAX)
       => (pc' = "srv_read" /\ client_tsc_offset' = DecValue(arg))]_vars

\* how often the process has made the call c
Calls(c) == Cardinality({k \in 1..Len(sys) : sys[k] = c})

\* C16: at most one session per process. The process never accepts or
\* connects twice; a server that holds a session has accepted exactly once
\* and has closed its listening socket, before any protocol read; a client
\* that holds a session has connected exactly once; and the session
\* descriptor is never closed, up to and including the exit.
C16_SingleSession ==
    /\ Calls("accept") + Calls("connect") <= 1
    /\ Calls("socket") <= 1
    /\ (flag = "-s" /\ fd # -1) =>
          /\ Calls("accept") = 1
          /\ Calls("close_listen") = 1
          /\ Calls("close_client") = 0
    /\ (flag = "-c" /\ fd # -1) =>
          /\ Calls("connect") = 1
          /\ Calls("close_fd") = 0
    /\ (op # "none" /\ flag = "-s" /\ mode \in {"vsock", "unix", "inet"}) =>
          (fd = -1 \/ Calls("close_listen") = 1)

\* a server that has finished its run on one accepted connection
C16_Witness ==
    /\ flag = "-s"
    /\ fd = AcceptedFd
    /\ pc = "exited"
    /\ exit_code = EXIT_SUCCESS
    /\ Calls("accept") = 1

\* the byte counts the read and the write of an iteration return on success
ReadSucceeded ==
    last_read = IF flag = "-s" THEN SizeofTsc ELSE SERVER_RESPONSE_LENGTH
WriteSucceeded ==
    last_write = IF flag = "-s" THEN SERVER_RESPONSE_LENGTH ELSE SizeofTsc

\* C17 as stated: a step that records a sample records exactly ticks[i], for
\* the first time, when ticks[0..i-1] are recorded and the read and the write
\* of the iteration have both returned successfully; and once print_results
\* has begun no sample is recorded.
C17_RecordedInOrderAfterSuccess ==
    [][/\ (filled' # filled \/ recorded' # recorded) =>
            /\ filled = 0..(i - 1)
            /\ filled' = 0..i
            /\ \A k \in Slots \ {i} : recorded'[k] = recorded[k]
            /\ ReadSucceeded
            /\ WriteSucceeded
            /\ pc \notin {"print", "ret", "exited"}
       /\ pc \in {"print", "ret", "exited"} =>
            (filled' = filled /\ recorded' = recorded)]_vars

\* C18: in every client iteration the write starts with begin_ts being the
\* latest reading of the counter and takes no reading itself; the step that
\* records ticks[i] comes after the read has returned, takes a new reading
\* end_ts, and records end_ts - begin_ts (unsigned), with no offset.
C18_ClientTiming ==
    [][flag = "-c" =>
         /\ last_write' # last_write \/ (pc = "cli_write" /\ pc' # pc) =>
               /\ begin_ts = tsc
               /\ tsc' = tsc
               /\ begin_ts' = begin_ts
         /\ filled' # filled =>
               /\ pc = "cli_end"
               /\ op = "read"
               /\ tsc' # tsc
               /\ end_ts' = tsc'
               /\ begin_ts' = begin_ts
               /\ ticks'[i] = WrapU(end_ts' - begin_ts)]_vars

\* a client that has recorded a sample after a successful exchange
C18_Witness ==
    /\ flag = "-c"
    /\ pc = "cli_begin"
    /\ i > 0
    /\ last_read = SERVER_RESPONSE_LENGTH
    /\ ticks[i - 1] = end_ts - begin_ts
    /\ ticks[i - 1] > 0

EstablishFailed ==
    /\ fd = -1
    /\ pc \notin {"main", "listen", "connect", "rt_main", "rt_listen", "rt_connect"}
    /\ flag \in {"-s", "-c"}

\* C14: in either program and either role, once channel establishment has
\* failed no sample is recorded, no report is printed, print_results is not
\* reached, and the process can only exit with a non-zero code.
C14_EstablishFailureFatal ==
    EstablishFailed =>
        /\ filled = {}
        /\ recorded = [k \in Slots |-> 0]
        /\ stdout = <<>>
        /\ pc \notin {"print", "ret", "rt_print", "rt_ret", "srv_done"}
        /\ pc \in {"exited", "rt_exited"} => exit_code # EXIT_SUCCESS

\* a process that has exited on a failed call after a failed establishment
\* in which it had made socket calls
C14_Witness ==
    /\ EstablishFailed
    /\ sys # <<>>
    /\ op # "none"
    /\ pc \in {"exited", "rt_exited"}

\* C20 as stated: in the round-trip server a read() of the request that
\* returns -1 or fewer than CLIENT_MESSAGE_LENGTH bytes ends the process with
\* a non-zero status, with no response written for the iteration (the read
\* stays the last call made) and ticks[i] not assigned.
C20_RTServerShortReadFatal ==
    (flag = "-s" /\ op = "read" /\ rc < CLIENT_MESSAGE_LENGTH) =>
        (pc = "rt_exited" /\ exit_code # EXIT_SUCCESS /\ i \notin filled)

\* process p of the pair ran all its iterations, printed its report and
\* returned EXIT_SUCCESS from main
RanToCompletion(p) ==
    /\ p.pc = "exited"
    /\ p.exit_code = EXIT_SUCCESS
    /\ p.i = ITERATIONS
    /\ p.reads = ITERATIONS
    /\ p.writes = ITERATIONS
    /\ Len(p.out) = ITERATIONS + 5

PairDone == RanToCompletion(cli) /\ RanToCompletion(srv)

\* C21: a client and a server on a channel on which no call fails, each
\* scheduled again and again, both end up having run exactly ITERATIONS
\* iterations, printed their reports and exited with code 0, and stay so.
C21_BothComplete == <>[]PairDone

\* both processes have finished
C21_Witness == PairDone /\ req = <<>> /\ ack = <<>>

\* the samples print_results summed: those recorded in slots 1..N-1
Summed == [k \in 1..(ITERATIONS - 1) |-> recorded[k]]

\* C22 as stated: the mean on the avg line is derived from the true integer
\* sum of ticks[1..N-1], also when that sum exceeds ULONG_MAX: the mean times
\* the divisor of line 748 is that sum.
C22_MeanFromTrueSum ==
    Printed =>
        Line("avg").num * ITERATIONS = SumFrom(Summed, 1) * Line("avg").den

\* C23 as stated: after print_results ticks[1..N-1] is in ascending order of
\* its unsigned values, for every sample set.
C23_SortedAscending ==
    Printed => \A k \in 1..(ITERATIONS - 2) : ticks[k] <= ticks[k + 1]

\* the iterations for which both processes of the pair hold their sample as
\* recorded (print_results has not reordered either array)
BothRecorded ==
    IF cli.out = <<>> /\ srv.out = <<>>
    THEN {k \in Slots : k < cli.i /\ k < srv.i}
    ELSE {}

\* C24 as stated: with one shared counter and offset 0, for every iteration
\* both have recorded, the server's sample is at most the client's.
C24_OneWayAtMostRoundTrip ==
    srv.client_tsc_offset = 0 =>
        \A k \in BothRecorded : srv.ticks[k] <= cli.ticks[k]

\* C25: while the peer is connected and has not written, a process in its
\* read() takes no step: it records nothing, prints nothing and does not
\* exit. So it stays there for as long as the peer does not write.
C25_StalledPeerStalls ==
    [][/\ (srv.pc = "read" /\ req = <<>> /\ ~Gone(cli)) => srv' = srv
       /\ (cli.pc = "read" /\ ack = <<>> /\ ~Gone(srv)) => cli' = cli]_vars

\* the server waits in read() for the second request, which the client, alive
\* and about to write, has not written yet
C25_Witness ==
    /\ srv.pc = "read"
    /\ srv.i = 1
    /\ req = <<>>
    /\ cli.pc = "write"
    /\ cli.i = 1

\* C26: the exchange is in lockstep. The client has written at most one
\* request more than it has read responses; the server has written no more
\* responses than the client has written requests, and no more than it has
\* read requests; at most one request and at most one response are unread;
\* and when the server is about to write a response no request is unread.
C26_Lockstep ==
    /\ cli.writes - cli.reads \in {0, 1}
    /\ srv.writes <= cli.writes
    /\ srv.writes <= srv.reads
    /\ Len(req) <= 1
    /\ Len(ack) <= 1
    /\ srv.pc = "write" => req = <<>>
    /\ ack # <<>> => req = <<>>

\* the second request is in flight, the client waiting for its response
C26_Witness ==
    /\ Len(req) = 1
    /\ cli.writes = 2
    /\ cli.reads = 1
    /\ cli.pc = "read"
    /\ srv.writes = 1

\* C27: the value the server decodes in its iteration k is the begin reading
\* the client took in its own iteration k, and the server's sample of that
\* iteration is computed from it.
C27_MatchingRequest ==
    [][/\ srv.reads' # srv.reads =>
            /\ srv.client_send_tsc' = cli.sent[srv.i]
            /\ srv.reads = srv.i
            /\ cli.i = srv.i
       /\ srv.i' # srv.i =>
            srv.ticks'[srv.i] =
                WrapU(srv.end_ts' - cli.sent[srv.i] + srv.client_tsc_offset)]_vars

\* the server has decoded every request, each a different, later reading
C27_Witness ==
    /\ srv.i = ITERATIONS
    /\ srv.out = <<>>
    /\ \A k \in Slots : srv.got[k] = cli.sent[k] /\ srv.got[k] > TscStart
    /\ \A k \in 1..(ITERATIONS - 1) : srv.got[k] > srv.got[k - 1]

\* the process of the pair that was not killed
Survivor == IF death.who = "cli" THEN srv ELSE cli

\* process p has reached print_results
Completed(p) ==
    \/ p.pc \in {"print", "ret"}
    \/ p.out # <<>>
    \/ p.pc = "exited" /\ p.exit_code = EXIT_SUCCESS

\* C28 as stated: when one process is killed inside its loop and the other
\* had not finished its ITERATIONS iterations by then, the other never
\* reaches print_results, prints nothing, and exits only with a non-zero code.
C28_SurvivorFails ==
    (death.who # "none" /\ death.peer_i < ITERATIONS) =>
        /\ ~Completed(Survivor)
        /\ Survivor.pc = "exited" => Survivor.exit_code # EXIT_SUCCESS

\* C29 as stated: a unix-mode server that has bound its socket path (it went
\* on to call listen) has removed the path by the time it has terminated.
C29_SocketPathRemoved ==
    (mode = "unix" /\ flag = "-s" /\ pc = "exited" /\ Calls("listen") = 1) =>
        Calls("unlink") = 1

====
